---- MODULE Spec2Model ----
(***************************************************************************)
(* Session core of chat.py: the transcript (CHATGPT.messages and the two   *)
(* token counters), the settings (ChatSettings), the slash-command         *)
(* dispatcher (handle_command), the completion request (CHATGPT.send) and  *)
(* the read/dispatch loop of main.                                         *)
(*                                                                         *)
(* Text is modelled as a sequence of one-character strings, so that        *)
(* strip(), lower(), startswith(), split(), ' '.join(), str() and float()  *)
(* are computed the way Python computes them.                              *)
(***************************************************************************)
EXTENDS Integers, Sequences, FiniteSets

\* ------------------------------------------------------------------ bounds
\* Most lines a session reads at its main prompt.
MaxPasses == 3
\* Largest usage.total_tokens a response reports.
MaxUsage == 1

\* ------------------------------------------------------------ text helpers
Upper ==
    <<"A","B","C","D","E","F","G","H","I","J","K","L","M",
      "N","O","P","Q","R","S","T","U","V","W","X","Y","Z">>
Lower ==
    <<"a","b","c","d","e","f","g","h","i","j","k","l","m",
      "n","o","p","q","r","s","t","u","v","w","x","y","z">>

\* str.lower() on one character
LowerChar(c) ==
    IF \E i \in 1..Len(Upper) : Upper[i] = c
    THEN Lower[CHOOSE i \in 1..Len(Upper) : Upper[i] = c]
    ELSE c

\* str.lower()
ToLower(s) == [i \in 1..Len(s) |-> LowerChar(s[i])]

IsSpace(c) == c \in {" ", "\n", "\t"}

\* str.strip(): leading and trailing whitespace removed
Strip(s) ==
    LET idx == {i \in 1..Len(s) : ~IsSpace(s[i])}
    IN  IF idx = {} THEN <<>>
        ELSE LET lo == CHOOSE i \in idx : \A j \in idx : i <= j
                 hi == CHOOSE i \in idx : \A j \in idx : j <= i
             IN  SubSeq(s, lo, hi)

\* str.startswith(p)
StartsWith(s, p) == Len(s) >= Len(p) /\ SubSeq(s, 1, Len(p)) = p

\* str.split(): the maximal runs of non-whitespace characters, in order
RECURSIVE SplitFrom(_, _, _)
SplitFrom(s, i, cur) ==
    IF i > Len(s)
    THEN IF cur = <<>> THEN <<>> ELSE <<cur>>
    ELSE IF IsSpace(s[i])
         THEN IF cur = <<>> THEN SplitFrom(s, i + 1, <<>>)
              ELSE <<cur>> \o SplitFrom(s, i + 1, <<>>)
         ELSE SplitFrom(s, i + 1, Append(cur, s[i]))

Split(s) == SplitFrom(s, 1, <<>>)

\* ' '.join(parts)
RECURSIVE JoinSpace(_)
JoinSpace(parts) ==
    IF parts = <<>> THEN <<>>
    ELSE IF Len(parts) = 1 THEN parts[1]
    ELSE parts[1] \o <<" ">> \o JoinSpace(Tail(parts))

\* ---------------------------------------------------------------- numbers
\* A number is mant / 10^exp with exp minimal; isInt tells a Python int from
\* a Python float (the two print differently under str()).
Digits == <<"0","1","2","3","4","5","6","7","8","9">>

IsDigit(c) == \E i \in 1..10 : Digits[i] = c

DigitVal(c) == (CHOOSE i \in 1..10 : Digits[i] = c) - 1

RECURSIVE Pow10(_)
Pow10(n) == IF n = 0 THEN 1 ELSE 10 * Pow10(n - 1)

RECURSIVE DigitsVal(_)
DigitsVal(s) ==
    IF s = <<>> THEN 0
    ELSE 10 * DigitsVal(SubSeq(s, 1, Len(s) - 1)) + DigitVal(s[Len(s)])

RECURSIVE Normal(_, _)
Normal(m, e) ==
    IF e > 0 /\ m % 10 = 0 THEN Normal(m \div 10, e - 1)
    ELSE [mant |-> m, exp |-> e, isInt |-> FALSE]

ValueError == [mant |-> -1, exp |-> 0, isInt |-> FALSE]

\* float(s) for s without whitespace: decimal digits with at most one point
\* and at least one digit give the number; any other text raises ValueError.
ParseFloat(s) ==
    LET dots == {i \in 1..Len(s) : s[i] = "."}
        ok   == /\ \A i \in 1..Len(s) : IsDigit(s[i]) \/ s[i] = "."
                /\ Cardinality(dots) <= 1
                /\ \E i \in 1..Len(s) : IsDigit(s[i])
    IN  IF ~ok THEN ValueError
        ELSE IF dots = {} THEN Normal(DigitsVal(s), 0)
        ELSE LET d == CHOOSE i \in dots : TRUE
                 frac == SubSeq(s, d + 1, Len(s))
             IN  Normal(DigitsVal(SubSeq(s, 1, d - 1) \o frac), Len(frac))

\* str(n) of a non-negative int
RECURSIVE IntStr(_)
IntStr(n) ==
    IF n < 10 THEN <<Digits[n + 1]>>
    ELSE IntStr(n \div 10) \o <<Digits[(n % 10) + 1]>>

\* n written with exactly w digits
RECURSIVE Padded(_, _)
Padded(n, w) ==
    IF w = 0 THEN <<>>
    ELSE Padded(n \div 10, w - 1) \o <<Digits[(n % 10) + 1]>>

\* str(x) of a timeout value: "20" for the int 20, "30.0" and "2.5" for floats
NumStr(x) ==
    IF x.isInt THEN IntStr(x.mant)
    ELSE IF x.exp = 0 THEN IntStr(x.mant) \o <<".", "0">>
    ELSE IntStr(x.mant \div Pow10(x.exp)) \o <<".">>
         \o Padded(x.mant % Pow10(x.exp), x.exp)

\* numeric equality of two timeout values (20 == 20.0 in Python)
NumEq(x, y) == x.mant = y.mant /\ x.exp = y.exp

\* ------------------------------------------------------------------ inputs
\* The lines the user types at the main prompt: two messages (one of them a
\* farewell in mixed case), the empty line, the ten commands with and
\* without arguments, and lines that only start like a command.
Lines ==
    { <<"h","i">>,
      <<"B","y","e">>,
      <<>>,
      <<"/","r","a","w">>,
      <<"/","m","u","l","t","i">>,
      <<"/","t","o","k","e","n","s">>,
      <<"/","l","a","s","t">>,
      <<"/","s","a","v","e">>,
      <<"/","s","a","v","e"," ","f">>,
      <<"/","s","y","s","t","e","m">>,
      <<"/","s","y","s","t","e","m"," ","B","e"," "," ","b","r","i","e","f">>,
      <<"/","t","i","m","e","o","u","t">>,
      <<"/","t","i","m","e","o","u","t"," ","3","0">>,
      <<"/","t","i","m","e","o","u","t"," ","a","b","c">>,
      <<"/","t","i","m","e","o","u","t"," ","2","0">>,
      <<"/","u","n","d","o">>,
      <<"/","h","e","l","p">>,
      <<"/","e","x","i","t">>,
      <<"/","s","a","v","e","x">>,
      <<"/","s","y","s","t","e","m","x"," ","b","e"," ","b","r","i","e","f">>,
      <<"/","t","i","m","e","o","u","t","x"," ","3","0">>,
      <<"/","R","A","W"," ">> }

\* The farewell words of the session loop; a Chinese character is written
\* as one symbol named by its code point.
Farewells ==
    { <<"U+518D","U+89C1">>,
      <<"b","y","e">>,
      <<"g","o","o","d","b","y","e">>,
      <<"U+7ED3","U+675F">>,
      <<"e","n","d">>,
      <<"U+9000","U+51FA">>,
      <<"e","x","i","t">>,
      <<"q","u","i","t">> }

DefaultSystemPrompt ==
    <<"Y","o","u"," ","a","r","e"," ","a"," ","h","e","l","p","f","u","l"," ","a","s","s","i","s","t","a","n","t",".">>

\* The command names handle_command compares against.
C_raw ==
    <<"/","r","a","w">>

C_multi ==
    <<"/","m","u","l","t","i">>

C_tokens ==
    <<"/","t","o","k","e","n","s">>

C_last ==
    <<"/","l","a","s","t">>

C_save ==
    <<"/","s","a","v","e">>

C_system ==
    <<"/","s","y","s","t","e","m">>

C_timeout ==
    <<"/","t","i","m","e","o","u","t">>

C_undo ==
    <<"/","u","n","d","o">>

C_exit ==
    <<"/","e","x","i","t">>

\* What the user may type at an interactive sub-prompt instead of accepting
\* the pre-filled default.
TypedFile == <<"f">>

TypedSystem == <<"b","e"," ","b","r","i","e","f">>

TypedTimeouts == { <<"3","0">>, <<"a","b","c">> }

\* What the server may send back: a reply with a quote, a backslash and a
\* line break in it.
ReplyText == <<"o", "\"", "\\", "\n", "k">>

ErrorText == <<"b","a","d">>

\* ------------------------------------------------------------------- state
VARIABLES
    messages,          \* CHATGPT.messages
    total_tokens,      \* CHATGPT.total_tokens
    current_tokens,    \* CHATGPT.current_tokens
    raw_mode,          \* ChatSettings.raw_mode
    multi_line_mode,   \* ChatSettings.multi_line_mode
    timeout,           \* ChatSettings.timeout
    pc,                \* where the session is: LoopTop (a pass through the
                       \* loop body has ended), Reading (in session.prompt),
                       \* Prompting (in a sub-prompt of a command), Awaiting
                       \* (request posted), Returned (send has returned to
                       \* main), Terminated
    message,           \* main: the message handed to send in this pass
    pending,           \* handle_command: the branch waiting at a sub-prompt
    reply,             \* main: what send returned in this pass
    files,             \* the files written by save_chat_history
    console,           \* the last thing printed on the console
    report,            \* the final "Total tokens used" report, once printed
    logged,            \* the "Total tokens used" line of chat.log, once written
    caught,            \* main: the exception that ended this pass, if any
    response,          \* what the transport produced for this pass's request
    sent,              \* how send ended in the last pass, if it was called
    pre,               \* transcript and counters when that send was called
    billed,            \* usage reported by the exchanges that completed
    passes             \* how often session.prompt has been entered

vars ==
    <<messages, total_tokens, current_tokens, raw_mode, multi_line_mode,
      timeout, pc, message, pending, reply, files, console, report,
      logged, caught, response, sent, pre, billed, passes>>

chat == <<messages, total_tokens, current_tokens>>

settings == <<raw_mode, multi_line_mode, timeout>>

Turn(role, content) == [role |-> role, content |-> content]

\* send's return value None
None == Turn("None", <<>>)

NoFile == [exists |-> FALSE, content |-> <<>>]

File(content) == [exists |-> TRUE, content |-> content]

NoReport == -1

\* one console.print / print / prompt call
Notice(msg, text) == [msg |-> msg, text |-> text]

DefaultTranscript == <<Turn("system", DefaultSystemPrompt)>>

\* The transcripts a session can start with: the default one, or one taken
\* from a file given with --load (here one without a system turn).
InitialTranscripts ==
    { DefaultTranscript,
      <<Turn("user", <<"h","i">>), Turn("assistant", ReplyText)>> }

\* int(os.environ.get("OPENAI_API_TIMEOUT", "20"))
DefaultTimeout == [mant |-> 20, exp |-> 0, isInt |-> TRUE]

Snapshot(msgs, total, current) ==
    [messages |-> msgs, total |-> total, current |-> current]

\* main up to the first session.prompt, started without --raw and --multi;
\* --load replaces the transcript
Init ==
    /\ messages \in InitialTranscripts
    /\ total_tokens = 0
    /\ current_tokens = 0
    /\ raw_mode = FALSE
    /\ multi_line_mode = FALSE
    /\ timeout = DefaultTimeout
    /\ pc = "Reading"
    /\ message = <<>>
    /\ pending = "none"
    /\ reply = None
    /\ files = [saved |-> NoFile, backup |-> NoFile]
    /\ console = Notice("Prompt", <<>>)
    /\ report = NoReport
    /\ logged = NoReport
    /\ caught = "none"
    /\ response = "none"
    /\ sent = "none"
    /\ pre = Snapshot(messages, 0, 0)
    /\ billed = [sum |-> 0, latest |-> 0]
    /\ passes = 1

\* ------------------------------------------------- how a loop pass can end
\* the end of the loop body, or `continue`
Continue(exc) ==
    /\ pc' = "LoopTop"
    /\ pending' = "none"
    /\ caught' = exc
    /\ UNCHANGED <<report, logged, passes>>

\* `break`: the loop is left, the finally clause logs the total (line 347)
\* and the total is reported on the console (lines 348-349)
Break(exc) ==
    /\ pc' = "Terminated"
    /\ pending' = "none"
    /\ caught' = exc
    /\ logged' = total_tokens'
    /\ report' = total_tokens'
    /\ UNCHANGED passes

\* an exception main does not catch: the finally clause logs the total, the
\* process ends with a traceback and the report after the loop is never
\* printed
Uncaught ==
    /\ pc' = "Terminated"
    /\ pending' = "none"
    /\ caught' = "uncaught"
    /\ logged' = total_tokens'
    /\ UNCHANGED <<report, passes>>

\* a pass that did not call send leaves nothing of an earlier send behind
NoSend ==
    /\ message' = <<>>
    /\ reply' = None
    /\ response' = "none"
    /\ sent' = "none"
    /\ pre' = Snapshot(messages', total_tokens', current_tokens')
    /\ UNCHANGED billed

\* the loop comes round to session.prompt, which shows "> "
ShowPrompt ==
    /\ pc = "LoopTop"
    /\ passes < MaxPasses
    /\ passes' = passes + 1
    /\ pc' = "Reading"
    /\ console' = Notice("Prompt", <<>>)
    /\ message' = <<>>
    /\ reply' = None
    /\ caught' = "none"
    /\ response' = "none"
    /\ UNCHANGED <<chat, settings, pending, files, report, logged, sent, pre,
                   billed>>

\* ------------------------------------------------------ command operators
\* list.pop()
Pop(msgs) == SubSeq(msgs, 1, Len(msgs) - 1)

\* the if/elif chain of handle_command
Branch(command) ==
    IF command = C_raw THEN "raw"
    ELSE IF command = C_multi THEN "multi"
    ELSE IF command = C_tokens THEN "tokens"
    ELSE IF command = C_last THEN "last"
    ELSE IF StartsWith(command, C_save) THEN "save"
    ELSE IF StartsWith(command, C_system) THEN "system"
    ELSE IF StartsWith(command, C_timeout) THEN "timeout"
    ELSE IF command = C_undo THEN "undo"
    ELSE IF command = C_exit THEN "exit"
    ELSE "help"

\* command = message.strip().lower()
Command(line) == ToLower(Strip(line))

\* args = command.split()
Args(line) == Split(Command(line))

\* print_message: a user or assistant turn is printed, any other is not
PrintMessage(turn) ==
    IF turn.role = "user" THEN Notice("User", turn.content)
    ELSE IF turn.role = "assistant" THEN Notice("ChatGPT", turn.content)
    ELSE console

\* modify_system_prompt without its role test
ModifyAnyFirstTurn(msgs, new_content) ==
    [msgs EXCEPT ![1].content = new_content]

\* CHATGPT.modify_system_prompt
ModifySystemPrompt(msgs, new_content) ==
    IF msgs[1].role = "system"
    THEN [msgs EXCEPT ![1].content = new_content]
    ELSE msgs

\* what modify_system_prompt prints
ModifyNotice(msgs, new_content) ==
    IF msgs[1].role = "system"
    THEN Notice("SystemModified", new_content)
    ELSE Notice("NoSystemPrompt", <<>>)

\* the /system branch once new_content is known
SystemCommand(msgs, new_content) ==
    IF new_content # msgs[1].content
    THEN ModifySystemPrompt(msgs, new_content)
    ELSE msgs

SystemNotice(msgs, new_content) ==
    IF new_content # msgs[1].content
    THEN ModifyNotice(msgs, new_content)
    ELSE Notice("NoChange", <<>>)

\* set_timeout storing what it was given before it is known to be a number
SetTimeoutUnchecked(cur, new_timeout) == ParseFloat(new_timeout)

\* ChatSettings.set_timeout
SetTimeout(cur, new_timeout) ==
    IF ParseFloat(new_timeout) = ValueError THEN cur
    ELSE ParseFloat(new_timeout)

\* what set_timeout prints
SetTimeoutNotice(new_timeout) ==
    IF ParseFloat(new_timeout) = ValueError
    THEN Notice("MustBeNumber", <<>>)
    ELSE Notice("TimeoutSet", new_timeout)

\* the /timeout branch once new_timeout is known
TimeoutCommand(cur, new_timeout) ==
    IF new_timeout # NumStr(cur) THEN SetTimeout(cur, new_timeout) ELSE cur

TimeoutNotice(cur, new_timeout) ==
    IF new_timeout # NumStr(cur) THEN SetTimeoutNotice(new_timeout)
    ELSE Notice("NoChange", <<>>)

\* the /undo branch
Undo(msgs) == IF Len(msgs) > 2 THEN Pop(Pop(msgs)) ELSE msgs

\* question['content'].split('\n')[0]
FirstLine(s) ==
    LET nl == {i \in 1..Len(s) : s[i] = "\n"}
    IN  IF nl = {} THEN s
        ELSE SubSeq(s, 1, (CHOOSE i \in nl : \A j \in nl : i <= j) - 1)

\* the question as /undo shows it
Truncated(s) ==
    IF Len(s) > Len(FirstLine(s)) THEN FirstLine(s) \o <<".", ".", ".">>
    ELSE FirstLine(s)

UndoNotice(msgs) ==
    IF Len(msgs) > 2
    THEN Notice("Undone", Truncated(msgs[Len(msgs) - 1].content))
    ELSE Notice("NothingToUndo", <<>>)

\* ------------------------------------------------------ the saved file
\* a role as the characters json writes
RoleText(role) ==
    IF role = "system" THEN <<"s", "y", "s", "t", "e", "m">>
    ELSE IF role = "user" THEN <<"u", "s", "e", "r">>
    ELSE <<"a", "s", "s", "i", "s", "t", "a", "n", "t">>

\* the role that `text` names; any other text is kept apart from the three
RoleOf(text) ==
    IF text = RoleText("system") THEN "system"
    ELSE IF text = RoleText("user") THEN "user"
    ELSE IF text = RoleText("assistant") THEN "assistant"
    ELSE "other"

K_role == <<"r", "o", "l", "e">>

K_content == <<"c", "o", "n", "t", "e", "n", "t">>

\* json.dump of one character of a string with ensure_ascii=False
JsonChar(c) ==
    IF c = "\"" THEN <<"\\", "\"">>
    ELSE IF c = "\\" THEN <<"\\", "\\">>
    ELSE IF c = "\n" THEN <<"\\", "n">>
    ELSE <<c>>

RECURSIVE JsonChars(_)
JsonChars(s) ==
    IF s = <<>> THEN <<>> ELSE JsonChar(Head(s)) \o JsonChars(Tail(s))

\* json.dump of a string
JsonString(s) == <<"\"">> \o JsonChars(s) \o <<"\"">>

\* the newline and indentation json.dump writes with indent=4
Indent(level) == <<"\n">> \o [i \in 1..(4 * level) |-> " "]

\* json.dump of one turn
JsonTurn(turn) ==
    Indent(1) \o <<"{">>
        \o Indent(2) \o JsonString(K_role) \o <<":", " ">>
        \o JsonString(RoleText(turn.role)) \o <<",">>
        \o Indent(2) \o JsonString(K_content) \o <<":", " ">>
        \o JsonString(turn.content)
        \o Indent(1) \o <<"}">>

RECURSIVE JsonTurns(_)
JsonTurns(msgs) ==
    IF Len(msgs) = 1 THEN JsonTurn(msgs[1])
    ELSE JsonTurn(Head(msgs)) \o <<",">> \o JsonTurns(Tail(msgs))

\* json.dump(self.messages, f, ensure_ascii=False, indent=4)
JsonDump(msgs) ==
    IF msgs = <<>> THEN <<"[", "]">>
    ELSE <<"[">> \o JsonTurns(msgs) \o Indent(0) \o <<"]">>

\* json.load raising JSONDecodeError
JSONDecodeError == [ok |-> FALSE, val |-> <<>>, next |-> 0]

Parsed(val, next) == [ok |-> TRUE, val |-> val, next |-> next]

\* the first position from i on that holds no white space
RECURSIVE SkipSpace(_, _)
SkipSpace(s, i) ==
    IF i <= Len(s) /\ s[i] \in {" ", "\n"} THEN SkipSpace(s, i + 1) ELSE i

\* the characters of a JSON string from position i on, after its opening
\* quote, up to its closing quote
RECURSIVE LoadChars(_, _, _)
LoadChars(s, i, acc) ==
    IF i > Len(s) THEN JSONDecodeError
    ELSE IF s[i] = "\"" THEN Parsed(acc, i + 1)
    ELSE IF s[i] = "\\"
    THEN IF i + 1 > Len(s) THEN JSONDecodeError
         ELSE IF s[i + 1] = "n" THEN LoadChars(s, i + 2, Append(acc, "\n"))
         ELSE IF s[i + 1] \in {"\"", "\\", "/"}
         THEN LoadChars(s, i + 2, Append(acc, s[i + 1]))
         ELSE JSONDecodeError
    ELSE IF s[i] = "\n" THEN JSONDecodeError
    ELSE LoadChars(s, i + 1, Append(acc, s[i]))

\* a JSON string at position i
LoadString(s, i) ==
    IF i <= Len(s) /\ s[i] = "\"" THEN LoadChars(s, i + 1, <<>>)
    ELSE JSONDecodeError

\* the members of a JSON object from position i on, after its opening brace:
\* a later member replaces an earlier one with the same key
RECURSIVE LoadMembers(_, _, _)
LoadMembers(s, i, acc) ==
    LET key == LoadString(s, SkipSpace(s, i))
        colon == SkipSpace(s, key.next)
        value == LoadString(s, SkipSpace(s, colon + 1))
        after == SkipSpace(s, value.next)
        all == [k \in (DOMAIN acc) \cup {key.val} |->
                   IF k = key.val THEN value.val ELSE acc[k]]
    IN  IF ~key.ok THEN JSONDecodeError
        ELSE IF colon > Len(s) \/ s[colon] # ":" THEN JSONDecodeError
        ELSE IF ~value.ok THEN JSONDecodeError
        ELSE IF after > Len(s) THEN JSONDecodeError
        ELSE IF s[after] = "}" THEN Parsed(all, after + 1)
        ELSE IF s[after] = "," THEN LoadMembers(s, after + 1, all)
        ELSE JSONDecodeError

\* a JSON object of strings at position i, as the turn it is
LoadTurn(s, i) ==
    IF i > Len(s) \/ s[i] # "{" THEN JSONDecodeError
    ELSE LET o == LoadMembers(s, i + 1, <<>>)
         IN  IF ~o.ok THEN JSONDecodeError
             ELSE IF DOMAIN o.val # {K_role, K_content} THEN JSONDecodeError
             ELSE Parsed(Turn(RoleOf(o.val[K_role]), o.val[K_content]),
                         o.next)

\* the elements of a JSON array from position i on, after its opening bracket
RECURSIVE LoadTurns(_, _, _)
LoadTurns(s, i, acc) ==
    LET turn == LoadTurn(s, SkipSpace(s, i))
        after == SkipSpace(s, turn.next)
    IN  IF ~turn.ok THEN JSONDecodeError
        ELSE IF after > Len(s) THEN JSONDecodeError
        ELSE IF s[after] = "]" THEN Parsed(Append(acc, turn.val), after + 1)
        ELSE IF s[after] = ","
        THEN LoadTurns(s, after + 1, Append(acc, turn.val))
        ELSE JSONDecodeError

\* json.load of a file that holds a list of turns
JsonLoad(s) ==
    LET open == SkipSpace(s, 1)
        first == SkipSpace(s, open + 1)
        list == IF first <= Len(s) /\ s[first] = "]"
                THEN Parsed(<<>>, first + 1)
                ELSE LoadTurns(s, open + 1, <<>>)
    IN  IF open > Len(s) \/ s[open] # "[" THEN JSONDecodeError
        ELSE IF ~list.ok THEN JSONDecodeError
        ELSE IF SkipSpace(s, list.next) <= Len(s) THEN JSONDecodeError
        ELSE list

\* load_chat_history: None (here the empty list, which main treats alike)
\* when the file is missing or is not JSON
LoadChatHistory(file) ==
    IF ~file.exists THEN <<>>
    ELSE IF ~JsonLoad(file.content).ok THEN <<>>
    ELSE JsonLoad(file.content).val

\* main, lines 303-306: the transcript a session started with --load has
StartTranscript(file) ==
    IF LoadChatHistory(file) # <<>> THEN LoadChatHistory(file)
    ELSE DefaultTranscript

\* ----------------------------------------------------- reading one line
\* session.prompt returned `line`, which starts with the command marker and
\* is dispatched to `branch`
ReadCommand(line, branch) ==
    /\ pc = "Reading"
    /\ StartsWith(line, <<"/">>)
    /\ Branch(Command(line)) = branch

\* Ctrl-C at the main prompt handled with break instead of continue
ReadInterruptBreaks ==
    /\ pc = "Reading"
    /\ UNCHANGED <<chat, settings, files, console>>
    /\ NoSend
    /\ Break("KeyboardInterrupt")

\* Ctrl-C at the main prompt
ReadInterrupt ==
    /\ pc = "Reading"
    /\ UNCHANGED <<chat, settings, files, console>>
    /\ NoSend
    /\ Continue("KeyboardInterrupt")

\* Ctrl-D at the main prompt
ReadEOF ==
    /\ pc = "Reading"
    /\ console' = Notice("Exiting", <<>>)
    /\ UNCHANGED <<chat, settings, files>>
    /\ NoSend
    /\ Break("EOFError")

\* an empty line
ReadEmpty(line) ==
    /\ pc = "Reading"
    /\ line = <<>>
    /\ UNCHANGED <<chat, settings, files, console>>
    /\ NoSend
    /\ Continue("none")

\* ------------------------------------------------------------ commands
CmdRaw(line) ==
    /\ ReadCommand(line, "raw")
    /\ raw_mode' = ~raw_mode
    /\ console' = Notice("RawMode", <<>>)
    /\ UNCHANGED <<chat, multi_line_mode, timeout, files>>
    /\ NoSend
    /\ Continue("none")

\* /multi toggling the raw mode instead
CmdMultiTogglesRaw(line) ==
    /\ ReadCommand(line, "multi")
    /\ raw_mode' = ~raw_mode
    /\ console' = Notice("MultiLineMode", <<>>)
    /\ UNCHANGED <<chat, multi_line_mode, timeout, files>>
    /\ NoSend
    /\ Continue("none")

CmdMulti(line) ==
    /\ ReadCommand(line, "multi")
    /\ multi_line_mode' = ~multi_line_mode
    /\ console' = Notice("MultiLineMode", <<>>)
    /\ UNCHANGED <<chat, raw_mode, timeout, files>>
    /\ NoSend
    /\ Continue("none")

CmdTokens(line) ==
    /\ ReadCommand(line, "tokens")
    /\ console' = Notice("Tokens", <<>>)
    /\ UNCHANGED <<chat, settings, files>>
    /\ NoSend
    /\ Continue("none")

\* /last: messages[-1] raises IndexError on an empty transcript
CmdLast(line) ==
    /\ ReadCommand(line, "last")
    /\ UNCHANGED <<chat, settings, files>>
    /\ NoSend
    /\ IF messages = <<>>
       THEN UNCHANGED console /\ Uncaught
       ELSE /\ console' = PrintMessage(messages[Len(messages)])
            /\ Continue("none")

\* CHATGPT.save_chat_history called from handle_command: the write succeeds,
\* or open() or the dump raises OSError, which nothing catches
SaveFromCommand ==
    \/ /\ files' = [files EXCEPT !.saved = File(JsonDump(messages))]
       /\ console' = Notice("Saved", <<>>)
       /\ Continue("none")
    \/ /\ UNCHANGED <<files, console>>
       /\ Uncaught

\* a sub-prompt of `branch` opens, pre-filled with `default`
Ask(branch, default) ==
    /\ pc' = "Prompting"
    /\ pending' = branch
    /\ console' = Notice("Ask", default)
    /\ caught' = "none"
    /\ UNCHANGED <<report, logged, passes>>

CmdSave(line) ==
    /\ ReadCommand(line, "save")
    /\ UNCHANGED <<chat, settings>>
    /\ NoSend
    /\ IF Len(Args(line)) > 1
       THEN SaveFromCommand
       ELSE UNCHANGED files /\ Ask("save", TypedFile)

\* the /system branch from line 199 on; messages[0] raises IndexError on an
\* empty transcript
SystemFrom(new_content) ==
    IF messages = <<>>
    THEN UNCHANGED <<messages, console>> /\ Uncaught
    ELSE /\ messages' = SystemCommand(messages, new_content)
         /\ console' = SystemNotice(messages, new_content)
         /\ Continue("none")

CmdSystem(line) ==
    /\ ReadCommand(line, "system")
    /\ UNCHANGED <<total_tokens, current_tokens, settings, files>>
    /\ IF Len(Args(line)) > 1
       THEN SystemFrom(JoinSpace(Tail(Args(line))))
       ELSE /\ UNCHANGED messages
            /\ IF messages = <<>>
               THEN UNCHANGED console /\ Uncaught
               ELSE Ask("system", messages[1].content)
    /\ NoSend

\* the /timeout branch from line 211 on
TimeoutFrom(new_timeout) ==
    /\ timeout' = TimeoutCommand(timeout, new_timeout)
    /\ console' = TimeoutNotice(timeout, new_timeout)
    /\ Continue("none")

CmdTimeout(line) ==
    /\ ReadCommand(line, "timeout")
    /\ UNCHANGED <<chat, raw_mode, multi_line_mode, files>>
    /\ NoSend
    /\ IF Len(Args(line)) > 1
       THEN TimeoutFrom(Args(line)[2])
       ELSE UNCHANGED timeout /\ Ask("timeout", NumStr(timeout))

CmdUndo(line) ==
    /\ ReadCommand(line, "undo")
    /\ messages' = Undo(messages)
    /\ console' = UndoNotice(messages)
    /\ UNCHANGED <<total_tokens, current_tokens, settings, files>>
    /\ NoSend
    /\ Continue("none")

\* /exit raises EOFError, which main catches
CmdExit(line) ==
    /\ ReadCommand(line, "exit")
    /\ console' = Notice("Exiting", <<>>)
    /\ UNCHANGED <<chat, settings, files>>
    /\ NoSend
    /\ Break("EOFError")

\* the final else: the command table
CmdHelp(line) ==
    /\ ReadCommand(line, "help")
    /\ console' = Notice("Help", <<>>)
    /\ UNCHANGED <<chat, settings, files>>
    /\ NoSend
    /\ Continue("none")

\* ------------------------------------------------- interactive sub-prompts
\* the sub-prompt returns `text`
PromptSave(text) ==
    /\ pc = "Prompting"
    /\ pending = "save"
    /\ text = TypedFile
    /\ UNCHANGED <<chat, settings>>
    /\ NoSend
    /\ SaveFromCommand

\* the pre-filled current system prompt accepted as it is, or a new text
SystemAnswers ==
    IF messages = <<>> THEN {TypedSystem}
    ELSE {TypedSystem, messages[1].content}

PromptSystem(text) ==
    /\ pc = "Prompting"
    /\ pending = "system"
    /\ text \in SystemAnswers
    /\ UNCHANGED <<total_tokens, current_tokens, settings, files>>
    /\ SystemFrom(text)
    /\ NoSend

\* the pre-filled current timeout accepted as it is, or a new text
TimeoutAnswers == TypedTimeouts \cup {NumStr(timeout)}

PromptTimeout(text) ==
    /\ pc = "Prompting"
    /\ pending = "timeout"
    /\ text \in TimeoutAnswers
    /\ UNCHANGED <<chat, raw_mode, multi_line_mode, files>>
    /\ NoSend
    /\ TimeoutFrom(text)

\* Ctrl-C at a sub-prompt propagates to main, which continues
PromptInterrupt ==
    /\ pc = "Prompting"
    /\ UNCHANGED <<chat, settings, files, console>>
    /\ NoSend
    /\ Continue("KeyboardInterrupt")

\* Ctrl-D at a sub-prompt propagates to main, which leaves the loop
PromptEOF ==
    /\ pc = "Prompting"
    /\ console' = Notice("Exiting", <<>>)
    /\ UNCHANGED <<chat, settings, files>>
    /\ NoSend
    /\ Break("EOFError")

\* ------------------------------------------------------------------ send
\* a line that is no command and is not empty: send appends the tentative
\* user turn and posts the request
ReadMessage(line) ==
    /\ pc = "Reading"
    /\ ~StartsWith(line, <<"/">>)
    /\ line # <<>>
    /\ message' = line
    /\ pre' = Snapshot(messages, total_tokens, current_tokens)
    /\ messages' = Append(messages, Turn("user", line))
    /\ pc' = "Awaiting"
    /\ sent' = "none"
    /\ UNCHANGED <<total_tokens, current_tokens, settings, pending, reply,
                   files, console, report, logged, caught, response,
                   billed, passes>>

\* send returns `r` to main
Return(r) ==
    /\ pc' = "Returned"
    /\ reply' = r
    /\ sent' = IF r = None THEN "null" ELSE "reply"
    /\ UNCHANGED <<pending, caught, report, logged, passes>>

\* send, or main before the farewell check, is left by KeyboardInterrupt,
\* which main catches with `continue`
Interrupted ==
    /\ sent' = "aborted"
    /\ UNCHANGED reply
    /\ Continue("KeyboardInterrupt")

\* the status-400 branch without its pop
On400NoPop(msgs) == msgs

\* the status-400 branch
On400(msgs) == Pop(msgs)

\* except ReadTimeout
OnReadTimeout(msgs) == Pop(msgs)

\* except RequestException
OnRequestException(msgs) == Pop(msgs)

\* except Exception
OnException(msgs) == Pop(msgs)

\* except KeyboardInterrupt
OnKeyboardInterrupt(msgs) == Pop(msgs)

\* the exceptions of requests that are RequestException but not ReadTimeout:
\* no connection within the timeout (ConnectionError behaves the same), and
\* the HTTPError raise_for_status raises for a status that is not 400
TransportErrors == {"ConnectTimeout", "HTTPError"}

\* what is raised inside the try block and is no RequestException and no
\* KeyboardInterrupt: an exception that is not the transport's own
\* (ValueError for a timeout that is not positive), or the KeyError of a
\* 400 body without error.message
OtherErrors == {"Exception", "KeyError400"}

\* Ctrl-C while the request is in flight
SendAborted ==
    /\ pc = "Awaiting"
    /\ response' = "none"
    /\ messages' = OnKeyboardInterrupt(messages)
    /\ console' = Notice("Aborted", <<>>)
    /\ Interrupted
    /\ UNCHANGED <<total_tokens, current_tokens, settings, message, files,
                   pre, billed>>

\* status 400 with error.message
Send400 ==
    /\ pc = "Awaiting"
    /\ response' = "400"
    /\ messages' = On400(messages)
    /\ console' = Notice("Error", ErrorText)
    /\ Return(None)
    /\ UNCHANGED <<total_tokens, current_tokens, settings, message, files,
                   pre, billed>>

\* status 400, and Ctrl-C arrives after the pop of line 83 while the error is
\* printed or logged: still inside the try block, so the KeyboardInterrupt
\* handler runs and pops again (IndexError if nothing is left to pop)
Send400Interrupted ==
    /\ pc = "Awaiting"
    /\ response' = "400"
    /\ UNCHANGED <<total_tokens, current_tokens, settings, message, files,
                   pre, billed>>
    /\ IF On400(messages) = <<>>
       THEN /\ messages' = On400(messages)
            /\ UNCHANGED <<console, reply>>
            /\ sent' = "raised"
            /\ Uncaught
       ELSE /\ messages' = OnKeyboardInterrupt(On400(messages))
            /\ console' = Notice("Aborted", <<>>)
            /\ Interrupted

\* the read timeout expires
SendReadTimeout ==
    /\ pc = "Awaiting"
    /\ response' = "ReadTimeout"
    /\ messages' = OnReadTimeout(messages)
    /\ console' = Notice("Timeout", NumStr(timeout))
    /\ Return(None)
    /\ UNCHANGED <<total_tokens, current_tokens, settings, message, files,
                   pre, billed>>

\* any other RequestException
SendTransportError ==
    /\ pc = "Awaiting"
    /\ \E e \in TransportErrors : response' = e
    /\ messages' = OnRequestException(messages)
    /\ console' = Notice("Error", <<>>)
    /\ Return(None)
    /\ UNCHANGED <<total_tokens, current_tokens, settings, message, files,
                   pre, billed>>

\* Ctrl-C while one of the two handlers above reports its error, after its
\* pop: an exception raised inside a handler goes straight to main
SendFailureInterrupted ==
    /\ pc = "Awaiting"
    /\ \E e \in TransportErrors \cup {"ReadTimeout"} :
        /\ response' = e
        /\ messages' = IF e = "ReadTimeout" THEN OnReadTimeout(messages)
                       ELSE OnRequestException(messages)
    /\ UNCHANGED console
    /\ Interrupted
    /\ UNCHANGED <<total_tokens, current_tokens, settings, message, files,
                   pre, billed>>

\* an unclassified exception: pop, report, back up the transcript, raise
\* EOFError; when the backup cannot be written its OSError propagates instead
SendFatal ==
    /\ pc = "Awaiting"
    /\ \E e \in OtherErrors : response' = e
    /\ messages' = OnException(messages)
    /\ sent' = "fatal"
    /\ UNCHANGED <<total_tokens, current_tokens, settings, message, reply,
                   pre, billed>>
    /\ \/ /\ files' = [files EXCEPT !.backup = File(JsonDump(messages'))]
          /\ console' = Notice("Exiting", <<>>)
          /\ Break("EOFError")
       \/ /\ console' = Notice("Error", <<>>)
          /\ UNCHANGED files
          /\ Uncaught

\* Ctrl-C inside the except-Exception handler after its pop, before the
\* backup is written or after it: EOFError is never raised
SendFatalInterrupted ==
    /\ pc = "Awaiting"
    /\ \E e \in OtherErrors : response' = e
    /\ messages' = OnException(messages)
    /\ console' = Notice("Error", <<>>)
    /\ \/ UNCHANGED files
       \/ files' = [files EXCEPT !.backup = File(JsonDump(messages'))]
    /\ Interrupted
    /\ UNCHANGED <<total_tokens, current_tokens, settings, message, pre,
                   billed>>

ReplyTurn == Turn("assistant", ReplyText)

\* status 2xx with usage.total_tokens and choices[0].message: lines 111-117
SendOK ==
    /\ pc = "Awaiting"
    /\ response' = "ok"
    /\ \E usage \in 1..MaxUsage :
        /\ current_tokens' = usage
        /\ total_tokens' = total_tokens + current_tokens'
        /\ billed' = [sum |-> billed.sum + usage, latest |-> usage]
    /\ messages' = Append(messages, ReplyTurn)
    /\ Return(ReplyTurn)
    /\ UNCHANGED <<settings, message, files, console, pre>>

\* status 2xx, and Ctrl-C arrives while lines 111-117 run, which no handler
\* of send covers: before line 113, between 113 and 114, between 114 and
\* 116, or after 116
SendOKInterrupted ==
    /\ pc = "Awaiting"
    /\ response' = "ok"
    /\ \E usage \in 1..MaxUsage, at \in {111, 114, 115, 117} :
        /\ current_tokens' = IF at > 113 THEN usage ELSE current_tokens
        /\ total_tokens' = IF at > 114 THEN total_tokens + usage
                           ELSE total_tokens
        /\ messages' = IF at > 116 THEN Append(messages, ReplyTurn)
                       ELSE messages
        /\ billed' = IF at > 116
                     THEN [sum |-> billed.sum + usage, latest |-> usage]
                     ELSE billed
    /\ Interrupted
    /\ UNCHANGED <<settings, message, files, console, pre>>

\* status 2xx with a body that is not what lines 111-115 expect: no usage
\* (or no JSON at all), or usage but no choices[0].message; the exception is
\* raised outside the try block and nothing catches it
SendOKMalformed ==
    /\ pc = "Awaiting"
    /\ \E usage \in 1..MaxUsage, e \in {"NoUsage", "NoChoices"} :
        /\ response' = e
        /\ current_tokens' = IF e = "NoChoices" THEN usage ELSE current_tokens
        /\ total_tokens' = IF e = "NoChoices" THEN total_tokens + usage
                           ELSE total_tokens
    /\ sent' = "raised"
    /\ Uncaught
    /\ UNCHANGED <<messages, settings, message, reply, files, console, pre,
                   billed>>

\* ------------------------------------------------ main, after send returns
\* the farewell test without lower()
IsFarewellCaseSensitive(line) == line \in Farewells

\* message.lower() in [...]
IsFarewell(line) == ToLower(line) \in Farewells

\* main sending the message again for as long as send returns None
RenderResends ==
    /\ pc = "Returned"
    /\ IF reply = None
       THEN /\ pc' = "Awaiting"
            /\ messages' = Append(messages, Turn("user", message))
            /\ UNCHANGED <<total_tokens, current_tokens, settings, message,
                           pending, reply, files, console, report, logged,
                           caught, response, sent, pre, billed, passes>>
       ELSE /\ console' = PrintMessage(reply)
            /\ UNCHANGED <<chat, settings, message, reply, sent, files,
                           response, pre, billed>>
            /\ IF IsFarewell(message) THEN Break("none")
               ELSE Continue("none")

\* lines 333-338: the reply, if any, is printed; a farewell leaves the loop
Render ==
    /\ pc = "Returned"
    /\ console' = IF reply # None THEN PrintMessage(reply) ELSE console
    /\ UNCHANGED <<chat, settings, message, reply, sent, files, response,
                   pre, billed>>
    /\ IF IsFarewell(message) THEN Break("none") ELSE Continue("none")

\* Ctrl-C while the reply is logged or printed, before the farewell check
RenderInterrupted ==
    /\ pc = "Returned"
    /\ Continue("KeyboardInterrupt")
    /\ UNCHANGED <<chat, settings, message, reply, sent, files, console,
                   response, pre, billed>>

\* ------------------------------------------------------------------ system
Next ==
    \/ ShowPrompt
    \/ ReadInterrupt
    \/ ReadEOF
    \/ \E line \in Lines : ReadEmpty(line)
    \/ \E line \in Lines : CmdRaw(line)
    \/ \E line \in Lines : CmdMulti(line)
    \/ \E line \in Lines : CmdTokens(line)
    \/ \E line \in Lines : CmdLast(line)
    \/ \E line \in Lines : CmdSave(line)
    \/ \E line \in Lines : CmdSystem(line)
    \/ \E line \in Lines : CmdTimeout(line)
    \/ \E line \in Lines : CmdUndo(line)
    \/ \E line \in Lines : CmdExit(line)
    \/ \E line \in Lines : CmdHelp(line)
    \/ PromptSave(TypedFile)
    \/ \E text \in SystemAnswers : PromptSystem(text)
    \/ \E text \in TimeoutAnswers : PromptTimeout(text)
    \/ PromptInterrupt
    \/ PromptEOF
    \/ \E line \in Lines : ReadMessage(line)
    \/ SendAborted
    \/ Send400
    \/ Send400Interrupted
    \/ SendReadTimeout
    \/ SendTransportError
    \/ SendFailureInterrupted
    \/ SendFatal
    \/ SendFatalInterrupted
    \/ SendOK
    \/ SendOKInterrupted
    \/ SendOKMalformed
    \/ Render
    \/ RenderInterrupted

Spec == Init /\ [][Next]_vars

\* what the transport can do to the request that is in flight: requests.post
\* returns a response, raises, or the timeout it was given expires
Transport ==
    \/ Send400
    \/ Send400Interrupted
    \/ SendReadTimeout
    \/ SendTransportError
    \/ SendFailureInterrupted
    \/ SendFatal
    \/ SendFatalInterrupted
    \/ SendOK
    \/ SendOKInterrupted
    \/ SendOKMalformed

\* the session when the transport always ends the request and main, which
\* runs on its own, goes on after send has returned
LiveSpec == Spec /\ WF_vars(Transport) /\ WF_vars(Render)

\* ================================================================== claims
\* the send failures after which send returns None
RecoverableFailures == {"400", "ReadTimeout"} \cup TransportErrors

\* C1 (revert invariant): when the request ends with status 400, a read
\* timeout or another transport error, send returns None, and from then on
\* until the next line is handled the transcript and both counters are what
\* they were when send was called.
C1_RevertInvariant ==
    /\ (pc = "Returned" /\ response \in RecoverableFailures)
           => (reply = None /\ sent = "null")
    /\ sent = "null"
           => /\ messages = pre.messages
              /\ total_tokens = pre.total
              /\ current_tokens = pre.current

\* a send that was answered with status 400 and its error message, on a
\* transcript with a system turn and one exchange, has returned None
C1_Witness ==
    /\ pc = "Returned"
    /\ response = "400"
    /\ reply = None
    /\ Len(pre.messages) = 3
    /\ messages = pre.messages

\* the turns after an optional system turn at index 0 are complete
\* (user, assistant) pairs
Paired(msgs) ==
    LET k == IF msgs # <<>> /\ msgs[1].role = "system" THEN 1 ELSE 0
    IN  /\ (Len(msgs) - k) % 2 = 0
        /\ \A i \in (k + 1)..Len(msgs) :
               msgs[i].role = IF (i - k) % 2 = 1 THEN "user" ELSE "assistant"

\* C2 (no dangling user turn): whenever the session is back at its prompt the
\* transcript is an optional system turn followed by complete (user,
\* assistant) pairs, and the send of the last pass, if any, either appended
\* the pair (user: message, assistant: reply) or left the transcript as it
\* was.
C2_NoDanglingUserTurn ==
    pc \in {"LoopTop", "Reading"} =>
        /\ Paired(messages)
        /\ sent = "reply" =>
               /\ Len(messages) = Len(pre.messages) + 2
               /\ Pop(Pop(messages)) = pre.messages
               /\ messages[Len(messages) - 1].role = "user"
               /\ messages[Len(messages)] = ReplyTurn
        /\ sent \in {"null", "aborted"} => messages = pre.messages

\* C3 (token accounting): total_tokens is the sum of the usage reported by
\* the exchanges that completed and current_tokens is the usage of the last
\* of them; nothing else changes either counter.
C3_TokenAccounting ==
    /\ total_tokens = billed.sum
    /\ current_tokens = billed.latest

\* C4 (undo symmetry): /undo right after a send that returned a reply gives
\* back the transcript send was called with, and leaves both counters at the
\* values that send set.
C4_UndoSymmetry ==
    [][(sent = "reply" /\ \E line \in Lines : CmdUndo(line)) =>
           /\ messages' = pre.messages
           /\ total_tokens' = total_tokens
           /\ current_tokens' = current_tokens
           /\ total_tokens' = pre.total + current_tokens'
           /\ current_tokens' > 0]_vars


\* message.lower() is one of the farewell words
Farewell(line) == ToLower(line) \in Farewells

\* C5 as stated (farewell termination for every outcome of the send): a pass
\* whose message was a farewell word never ends with the loop going round
\* again.
C5_FarewellAlwaysTerminates ==
    pc = "LoopTop" => ~Farewell(message)

\* C5 as amended: once send has returned for a farewell word, with a reply
\* or with None after a recoverable failure, the session terminates unless
\* a user interrupt arrives before the farewell check; a pass that goes
\* round the loop again after a farewell word was ended by a user interrupt.
C5_FarewellTermination ==
    [][/\ (pc = "Returned" /\ Farewell(message)
               /\ caught' # "KeyboardInterrupt")
           => (pc' = "Terminated" /\ caught' = "none"
                   /\ report' = total_tokens)
       /\ (pc' = "LoopTop" /\ Farewell(message'))
           => caught' = "KeyboardInterrupt"]_vars

\* "Bye" was sent, the request failed with status 400, and the session has
\* terminated at the farewell check
C5_Witness ==
    /\ pc = "Terminated"
    /\ caught = "none"
    /\ message = <<"B", "y", "e">>
    /\ response = "400"
    /\ reply = None
    /\ report = total_tokens

\* what the completion call can produce that is no validation error, no
\* timeout, no transport error and no interrupt
Unclassified == OtherErrors \cup {"NoUsage", "NoChoices"}

\* C6 (fatal path): after an unclassified exception during the completion
\* call the tentative user turn is gone, the session has terminated, and it
\* terminated either through EOFError after the snapshot of the resulting
\* transcript was written or because writing the snapshot failed.
C6_FatalPath ==
    response \in Unclassified =>
        /\ messages = pre.messages
        /\ pc = "Terminated"
        /\ sent = "fatal"
        /\ caught = "EOFError" => files.backup = File(JsonDump(messages))

\* C7 (interrupts never terminate): a user interrupt at the main prompt or
\* at a sub-prompt of a command takes the session back to the top of the
\* loop with transcript, counters and settings unchanged; a user interrupt
\* while the request is in flight removes the tentative user turn and takes
\* the session back to the top of the loop as well.
C7_InterruptsContinue ==
    [][/\ (pc \in {"Reading", "Prompting"}
               /\ caught' = "KeyboardInterrupt")
           => (pc' = "LoopTop" /\ UNCHANGED <<chat, settings>>)
       /\ (pc = "Awaiting" /\ response' = "none")
           => /\ pc' = "LoopTop"
              /\ caught' = "KeyboardInterrupt"
              /\ messages' = pre.messages
              /\ UNCHANGED <<total_tokens, current_tokens, settings>>
       /\ (pc = "LoopTop" /\ caught = "KeyboardInterrupt"
               /\ passes < MaxPasses)
           => ENABLED ShowPrompt]_vars

\* Ctrl-C at the main prompt of a session that is not in its first pass
C7_Witness ==
    /\ pc = "LoopTop"
    /\ caught = "KeyboardInterrupt"
    /\ sent = "none"
    /\ response = "none"
    /\ passes > 1

\* what C8 says of set-timeout given the argument `a`
TimeoutPost(a) ==
    /\ IF ParseFloat(a) # ValueError
       THEN /\ NumEq(timeout', ParseFloat(a))
            /\ console'.msg # "MustBeNumber"
       ELSE /\ timeout' = timeout
            /\ console'.msg = "MustBeNumber"
    /\ UNCHANGED <<messages, raw_mode, multi_line_mode>>

\* the modelled lines that reach the /timeout branch with an argument
TimeoutArgLines ==
    {line \in Lines :
        Len(Args(line)) > 1 /\ Branch(Command(line)) = "timeout"}

\* C8 (timeout command): set-timeout with an argument that parses as a
\* number leaves timeout equal to that number; with one that does not parse
\* it reports that the input must be a number and keeps timeout; in both
\* cases transcript, raw_mode and multi_line_mode are unchanged. The
\* argument is the second word of the line or the text given at the
\* sub-prompt.
C8_TimeoutCommand ==
    [][/\ \A line \in TimeoutArgLines :
              CmdTimeout(line) => TimeoutPost(Args(line)[2])
       /\ pc = "Prompting" =>
              \A text \in TimeoutAnswers :
                  PromptTimeout(text) => TimeoutPost(text)]_vars

\* "abc" was refused and the timeout set before is still in place
C8_Witness ==
    /\ pc = "LoopTop"
    /\ console.msg = "MustBeNumber"
    /\ timeout = [mant |-> 30, exp |-> 0, isInt |-> FALSE]

\* the modelled lines that reach the /system branch with an argument
SystemArgLines ==
    {line \in Lines :
        Len(Args(line)) > 1 /\ Branch(Command(line)) = "system"}

\* the new text each of them gives
SystemArg == [line \in SystemArgLines |-> JoinSpace(Tail(Args(line)))]

\* a step of the /system branch that has the new text `text`
SetSystem(text) ==
    \/ /\ pc = "Reading"
       /\ \E line \in SystemArgLines :
              text = SystemArg[line] /\ CmdSystem(line)
    \/ PromptSystem(text)

\* the texts the modelled lines and sub-prompt answers hand to it
SystemTexts == {SystemArg[line] : line \in SystemArgLines} \cup SystemAnswers

\* C9 as stated (system-prompt guard): set-system on a transcript whose
\* turn at index 0 is not a system turn leaves the transcript unmodified
\* and reports that no system prompt was found.
C9_AlwaysReportsNoSystemPrompt ==
    [][\A text \in SystemTexts :
          (messages # <<>> /\ messages[1].role # "system" /\ SetSystem(text))
              => (messages' = messages /\ console'.msg = "NoSystemPrompt")]_vars

\* C9 as amended: set-system on a transcript whose turn at index 0 is not a
\* system turn leaves the transcript unmodified, and reports that no system
\* prompt was found when the new text differs from the content of that
\* turn and "no change" when it is equal; when index 0 is a system turn
\* only the content of index 0 changes, and it becomes the new text.
C9_SystemPromptGuard ==
    [][\A text \in SystemTexts :
          (messages # <<>> /\ SetSystem(text)) =>
              IF messages[1].role # "system"
              THEN /\ messages' = messages
                   /\ console'.msg = IF text # messages[1].content
                                      THEN "NoSystemPrompt" ELSE "NoChange"
              ELSE /\ Len(messages') = Len(messages)
                   /\ messages'[1] = Turn("system", text)
                   /\ \A i \in 2..Len(messages) :
                          messages'[i] = messages[i]]_vars

\* set-system was refused on a loaded transcript without a system turn
C9_Witness ==
    /\ pc = "LoopTop"
    /\ console.msg = "NoSystemPrompt"
    /\ messages # <<>>
    /\ messages[1].role = "user"

\* the name of the help command, which handle_command does not test for
N_help == <<"/", "h", "e", "l", "p">>

\* the ten command names
CommandNames ==
    {C_raw, C_multi, C_tokens, C_last, C_save, C_system, C_timeout, C_undo,
     C_exit, N_help}

\* a line with the command marker whose first word is none of the names
Unrecognized(line) ==
    /\ StartsWith(line, <<"/">>)
    /\ Args(line) = <<>> \/ Args(line)[1] \notin CommandNames

\* the modelled lines of that kind
UnrecognizedLines == {line \in Lines : Unrecognized(line)}

\* the modelled lines whose first word is the command `name`
Named(name) ==
    {line \in Lines : Args(line) # <<>> /\ Args(line)[1] = name}

FrameLines ==
    Named(C_tokens) \cup Named(C_last) \cup Named(C_save)
        \cup Named(C_system) \cup Named(C_undo) \cup Named(N_help)

RawLines == Named(C_raw)

MultiLines == Named(C_multi)

TimeoutLines == Named(C_timeout)

\* the branch of handle_command each modelled line is dispatched to
BranchOf == [line \in Lines |-> Branch(Command(line))]

\* handle_command(line), for a line of Lines
HandleCommand(line) ==
    /\ pc = "Reading"
    /\ \/ BranchOf[line] = "raw" /\ CmdRaw(line)
       \/ BranchOf[line] = "multi" /\ CmdMulti(line)
       \/ BranchOf[line] = "tokens" /\ CmdTokens(line)
       \/ BranchOf[line] = "last" /\ CmdLast(line)
       \/ BranchOf[line] = "save" /\ CmdSave(line)
       \/ BranchOf[line] = "system" /\ CmdSystem(line)
       \/ BranchOf[line] = "timeout" /\ CmdTimeout(line)
       \/ BranchOf[line] = "undo" /\ CmdUndo(line)
       \/ BranchOf[line] = "exit" /\ CmdExit(line)
       \/ BranchOf[line] = "help" /\ CmdHelp(line)

\* C10 (unrecognized commands behave as help): a line with the command
\* marker whose first word is not one of the ten command names only prints
\* the command table: transcript, counters, settings and files are
\* unchanged and no sub-prompt opens.
C10_UnrecognizedIsHelp ==
    [][\A line \in UnrecognizedLines :
          HandleCommand(line)
              => /\ console'.msg = "Help"
                 /\ pc' = "LoopTop"
                 /\ UNCHANGED <<chat, settings, files>>]_vars

\* C11 (round-trip persistence): when save has written the transcript, a
\* session started with --load on that file has a transcript equal to the
\* one that was saved, turn by turn in role and content.
C11_RoundTrip ==
    [][console'.msg = "Saved"
           => /\ files'.saved.exists
              /\ StartTranscript(files'.saved) = messages]_vars

\* C12 (abort reverts exactly once): whenever a user interrupt ended send,
\* at whatever point between the append of the tentative user turn and the
\* return to the loop, the transcript is the one send was called with.
C12_AbortRevertsOnce ==
    sent = "aborted" => messages = pre.messages

\* C13 (undo guard): /undo on a transcript of at least 3 turns removes
\* exactly the last two, which are a user turn and the assistant turn that
\* answers it; on a shorter transcript it changes nothing and reports that
\* there is nothing to undo; the turn at index 0 is never removed or altered.
C13_UndoGuard ==
    [][\A line \in Lines :
          (CmdUndo(line) /\ Args(line)[1] = C_undo) =>
              /\ IF Len(messages) >= 3
                 THEN /\ messages' = SubSeq(messages, 1, Len(messages) - 2)
                      /\ messages[Len(messages) - 1].role = "user"
                      /\ messages[Len(messages)].role = "assistant"
                      /\ console'.msg = "Undone"
                 ELSE /\ messages' = messages
                      /\ console'.msg = "NothingToUndo"
              /\ messages # <<>> =>
                     (messages' # <<>> /\ messages'[1] = messages[1])]_vars

\* C14 (termination only by the listed triggers): every step that takes the
\* session to Terminated is the exit command, end-of-input at the main
\* prompt or at a sub-prompt, the farewell check after a farewell message,
\* or the fatal path of send.
C14_TerminationTriggers ==
    [][(pc # "Terminated" /\ pc' = "Terminated") =>
           \/ \E line \in Lines : CmdExit(line)
           \/ ReadEOF
           \/ PromptEOF
           \/ Render /\ Farewell(message)
           \/ SendFatal]_vars

\* C15 (final report): when the session has ended through the exit command,
\* end-of-input, a farewell message or the fatal path of send, also when the
\* emergency snapshot could not be written, the final report has been
\* printed and shows total_tokens.
C15_FinalReport ==
    (pc = "Terminated" /\ (caught \in {"EOFError", "none"} \/ sent = "fatal"))
        => report = total_tokens

\* the outcomes in which the per-request timeout expired
TimeoutErrors == {"ReadTimeout", "ConnectTimeout"}

\* C16 (request timeout classification): when send has returned after the
\* timeout expired, while connecting or while waiting for the response, the
\* tentative user turn is gone, send returned None, and the last thing
\* printed is the timeout message with the timeout of the settings.
C16_TimeoutPath ==
    (pc = "Returned" /\ response \in TimeoutErrors) =>
        /\ messages = pre.messages
        /\ reply = None
        /\ console = Notice("Timeout", NumStr(timeout))

\* C17 (settings frame): send, on every outcome, and the rendering after it
\* leave the settings unchanged, and so do the commands named /tokens,
\* /last, /save, /system, /undo and /help with their sub-prompts; /raw flips
\* raw_mode and /multi flips multi_line_mode and each changes nothing else
\* of settings, transcript and counters; /timeout and its sub-prompt change
\* neither the two modes nor transcript and counters.
C17_SettingsFrame ==
    [][/\ pc \in {"Awaiting", "Returned", "LoopTop"} => UNCHANGED settings
       /\ settings' # settings =>
              \A line \in FrameLines : ~HandleCommand(line)
       /\ \A line \in RawLines :
              HandleCommand(line)
                  => /\ raw_mode' = ~raw_mode
                     /\ UNCHANGED <<multi_line_mode, timeout, chat>>
       /\ \A line \in MultiLines :
              HandleCommand(line)
                  => /\ multi_line_mode' = ~multi_line_mode
                     /\ UNCHANGED <<raw_mode, timeout, chat>>
       /\ \A line \in TimeoutLines :
              HandleCommand(line)
                  => UNCHANGED <<raw_mode, multi_line_mode, chat>>
       /\ (pc = "Prompting" /\ pending \in {"save", "system"})
              => UNCHANGED settings
       /\ (pc = "Prompting" /\ pending = "timeout")
              => UNCHANGED <<raw_mode, multi_line_mode, chat>>]_vars

\* /multi has just been toggled on in a session that has raw mode on
C17_Witness ==
    /\ pc = "LoopTop"
    /\ console.msg = "MultiLineMode"
    /\ multi_line_mode
    /\ raw_mode
    /\ timeout = DefaultTimeout

\* main reads a line, or an answer at a sub-prompt, and acts on it
ReadsInput ==
    \/ ReadInterrupt
    \/ ReadEOF
    \/ \E line \in Lines :
           ReadEmpty(line) \/ HandleCommand(line) \/ ReadMessage(line)
    \/ PromptSave(TypedFile)
    \/ \E text \in SystemAnswers : PromptSystem(text)
    \/ \E text \in TimeoutAnswers : PromptTimeout(text)
    \/ PromptInterrupt
    \/ PromptEOF

\* C18 (request lifecycle liveness): while a request is outstanding no line
\* is read, so no command is handled and no second request is posted; and
\* when the transport always ends the request, a session that is awaiting
\* the response gets back to the top of its loop or terminates.
C18_RequestLifecycle ==
    /\ [](pc = "Awaiting" => ~ENABLED ReadsInput)
    /\ (pc = "Awaiting") ~> (pc \in {"LoopTop", "Terminated"})

\* the read timeout expired and the session is back at the top of its loop
C18_Witness ==
    /\ pc = "LoopTop"
    /\ response = "ReadTimeout"
    /\ sent = "null"
    /\ caught = "none"
    /\ messages = pre.messages

\* C19 (transcript is never empty): in every state the transcript holds at
\* least one turn, so /last and /system always find the turn they read.
C19_NeverEmpty ==
    messages # <<>>
====
